---- MODULE Spec2Model ----
(***************************************************************************)
(* A model of bookbits.py (Signynt/bookbits): the EPUB CFI parser, the     *)
(* position-vector comparator, the comparator-driven sort and chapter walk *)
(* of content(), the record filter of populate_annotations, the chapter    *)
(* title extractor and the menu loop of main.                              *)
(*                                                                         *)
(* Python strings are sequences of one-character strings.  The Python      *)
(* value None is the one-element sequence <<"None">>, which no string of   *)
(* single characters can equal.  A call that can raise returns a record    *)
(* whose field kind is "ok" or the name of the exception.                  *)
(***************************************************************************)
EXTENDS Integers, Sequences, FiniteSets, TLC

VARIABLES pc, x, y, z, e, loc, raw, raw2, result,
          records, anno_group, selected_book, title_option, refresh, arg, md

vars == <<pc, x, y, z, e, loc, raw, raw2, result,
          records, anno_group, selected_book, title_option, refresh, arg, md>>

(***************************************************************************)
(* Bounds of the model.                                                    *)
(***************************************************************************)
MaxStep == 2
MaxDepth == 2
MaxExt == 2
MaxPath == 2
MaxEnd == 1
MaxLabel == 4
MaxRecords == 2
MaxAnnos == 3

None == <<"None">>

Min(a, b) == IF a <= b THEN a ELSE b

(***************************************************************************)
(* epubcfi_compare: scan the common depth, return the first non-zero       *)
(* difference, else the difference of the lengths.  Python integers are    *)
(* unbounded, so the subtraction cannot overflow.                          *)
(***************************************************************************)
RECURSIVE compare_from(_, _, _, _)
compare_from(a, b, d, depth) ==
    IF d > depth THEN Len(a) - Len(b)
    ELSE IF a[d] = b[d] THEN compare_from(a, b, d + 1, depth)
    ELSE a[d] - b[d]

CommonEqual(a, b) ==
    SubSeq(a, 1, Min(Len(a), Len(b))) = SubSeq(b, 1, Min(Len(a), Len(b)))

epubcfi_compare_eqlen(a, b) ==
    IF CommonEqual(a, b) THEN 0
    ELSE compare_from(a, b, 1, Min(Len(a), Len(b)))

epubcfi_compare_swaplen(a, b) ==
    IF CommonEqual(a, b) THEN Len(b) - Len(a)
    ELSE compare_from(a, b, 1, Min(Len(a), Len(b)))

epubcfi_compare(a, b) == compare_from(a, b, 1, Min(Len(a), Len(b)))

(***************************************************************************)
(* Inputs of the comparator: position vectors are finite sequences of      *)
(* non-negative integers; an extension may hold any integers.              *)
(***************************************************************************)
SeqsUpTo(S, n) == UNION {[1..k -> S] : k \in 0..n}

\* Position vectors of at most depth steps, each at most step.
Vectors(step, depth) == SeqsUpTo(0..step, depth)

\* Extensions of at most n integers, negative ones included.
Extensions(step, n) == SeqsUpTo((-1)..step, n) \ {<<>>}

NoResult == [kind |-> "none"]

IdleCompare == x = <<>> /\ y = <<>> /\ z = <<>> /\ e = <<>>

IdleParse == loc = NoResult /\ raw = None /\ raw2 = None

IdleMain ==
    /\ records = <<>>
    /\ anno_group = <<>>
    /\ selected_book = None
    /\ title_option = "yes"
    /\ refresh = FALSE
    /\ arg = <<>>
    /\ md = <<>>

(***************************************************************************)
(* SpecCompare: three vectors are drawn and compared pairwise.             *)
(***************************************************************************)
InitCompare ==
    /\ pc = "input"
    /\ x \in Vectors(MaxStep, MaxDepth)
    /\ y \in Vectors(MaxStep, MaxDepth)
    /\ z \in Vectors(MaxStep, MaxDepth)
    /\ e = <<>>
    /\ result = NoResult
    /\ IdleParse /\ IdleMain

Compare ==
    /\ pc = "input"
    /\ pc' = "compared"
    /\ result' = [kind |-> "ok",
                  xx |-> epubcfi_compare(x, x),
                  xy |-> epubcfi_compare(x, y),
                  yx |-> epubcfi_compare(y, x),
                  yz |-> epubcfi_compare(y, z),
                  xz |-> epubcfi_compare(x, z)]
    /\ UNCHANGED <<x, y, z, e, loc, raw, raw2, records, anno_group,
                   selected_book, title_option, refresh, arg, md>>

NextCompare == Compare

SpecCompare == InitCompare /\ [][NextCompare]_vars

(***************************************************************************)
(* SpecPrefix: a vector x is compared with its extension x \o e.           *)
(***************************************************************************)
InitPrefix ==
    /\ pc = "input"
    /\ x \in Vectors(MaxStep, MaxDepth) /\ e \in Extensions(MaxStep, MaxExt)
    /\ y = <<>> /\ z = <<>>
    /\ result = NoResult
    /\ IdleParse /\ IdleMain

ComparePrefix ==
    /\ pc = "input"
    /\ pc' = "compared"
    /\ result' = [kind |-> "ok",
                  ve |-> epubcfi_compare(x, x \o e),
                  ev |-> epubcfi_compare(x \o e, x)]
    /\ UNCHANGED <<x, y, z, e, loc, raw, raw2, records, anno_group,
                   selected_book, title_option, refresh, arg, md>>

NextPrefix == ComparePrefix

SpecPrefix == InitPrefix /\ [][NextPrefix]_vars

\* C1: epubcfi_compare is a strict total order on position vectors:
\* compare(a,a) is Equal; compare(a,b) is Less exactly when compare(b,a) is
\* Greater; compare(a,b) is Equal only when a = b; Less is transitive.
C1_StrictTotalOrder ==
    pc = "compared" =>
        /\ result.xx = 0
        /\ (result.xy < 0) <=> (result.yx > 0)
        /\ (result.xy = 0) => (x = y)
        /\ (result.xy < 0 /\ result.yz < 0) => (result.xz < 0)

C1_Witness ==
    /\ pc = "compared"
    /\ result.xy < 0 /\ result.yz < 0 /\ result.xz < 0
    /\ Len(x) < Len(y) /\ Len(z) < Len(y)

\* C2: a vector compares Less than any non-empty extension of itself, and
\* the extension compares Greater than the vector, whatever the extension
\* holds.
C2_PrefixTieBreak ==
    pc = "compared" => (result.ve < 0 /\ result.ev > 0)

C2_Witness ==
    /\ pc = "compared"
    /\ x # <<>> /\ e[1] < 0 /\ Len(e) > 1
    /\ result.ve < 0 /\ result.ev > 0

(***************************************************************************)
(* Strings.                                                                *)
(***************************************************************************)
DigitSeq == <<"0", "1", "2", "3", "4", "5", "6", "7", "8", "9">>

IsDigit(c) == \E i \in 1..10 : DigitSeq[i] = c

DigitVal(c) == (CHOOSE i \in 1..10 : DigitSeq[i] = c) - 1

\* The index of the first occurrence of c in s at or after i, else 0.
RECURSIVE IndexFrom(_, _, _)
IndexFrom(s, c, i) ==
    IF i > Len(s) THEN 0
    ELSE IF s[i] = c THEN i
    ELSE IndexFrom(s, c, i + 1)

\* str.split(sep) for a one-character separator.
RECURSIVE Split(_, _)
Split(s, sep) ==
    LET i == IndexFrom(s, sep, 1)
    IN  IF i = 0 THEN <<s>>
        ELSE <<SubSeq(s, 1, i - 1)>> \o Split(SubSeq(s, i + 1, Len(s)), sep)

\* The end of the maximal run of digits that starts at i (i - 1 if none).
RECURSIVE DigitRunEnd(_, _)
DigitRunEnd(s, i) ==
    IF i <= Len(s) /\ IsDigit(s[i]) THEN DigitRunEnd(s, i + 1) ELSE i - 1

RECURSIVE DigitsValue(_, _)
DigitsValue(s, acc) ==
    IF s = <<>> THEN acc
    ELSE DigitsValue(Tail(s), 10 * acc + DigitVal(Head(s)))

\* int(s) on the characters of the model's alphabet, which has no sign,
\* blank or underscore: a non-empty run of digits converts, anything else
\* raises ValueError.
ParseInt(s) ==
    IF s # <<>> /\ \A i \in 1..Len(s) : IsDigit(s[i])
    THEN [kind |-> "ok", val |-> DigitsValue(s, 0)]
    ELSE [kind |-> "ValueError"]

\* [int(x[1:]) for x in re.findall('(/\d+)', path)]
RECURSIVE FindSteps(_, _)
FindSteps(path, i) ==
    IF i > Len(path) THEN <<>>
    ELSE IF path[i] = "/" /\ DigitRunEnd(path, i + 1) > i
    THEN LET k == DigitRunEnd(path, i + 1)
         IN  <<DigitsValue(SubSeq(path, i + 1, k), 0)>> \o FindSteps(path, k + 1)
    ELSE FindSteps(path, i + 1)

\* raw[8:-1]
Slice8(s) == SubSeq(s, 9, Len(s) - 1)

(***************************************************************************)
(* parse_epubcfi                                                           *)
(***************************************************************************)
\* offsets.append(int(parts[1])), or the ValueError of int().
WithOffset(offsets, off) ==
    IF off.kind = "ok" THEN [kind |-> "ok", val |-> Append(offsets, off.val)]
    ELSE [kind |-> "ValueError"]

\* The statements after parts = cfistart.split(':').
ParseStart(parts) ==
    IF Len(parts) > 1
    THEN WithOffset(FindSteps(parts[1], 1), ParseInt(parts[2]))
    ELSE [kind |-> "ok", val |-> FindSteps(parts[1], 1)]

\* The statements after parts = raw[8:-1].split(',').
ParseParts_second(parts) ==
    IF Len(parts) < 3 THEN [kind |-> "IndexError"]
    ELSE ParseStart(Split(parts[1] \o parts[3], ":"))

ParseParts(parts) ==
    IF Len(parts) < 2 THEN [kind |-> "IndexError"]
    ELSE ParseStart(Split(parts[1] \o parts[2], ":"))

parse_epubcfi(r) ==
    IF r = None THEN [kind |-> "ok", val |-> <<>>]
    ELSE ParseParts(Split(Slice8(r), ","))

(***************************************************************************)
(* Locations as the reader emits them.  A location is described by its     *)
(* form and its segments a, b, c; a segment is a sequence of path steps    *)
(* (an integer and an optional bracketed label), an optional "!" after     *)
(* step number bang (0: none) and an optional ":" offset (-1: none).       *)
(* Labels are identifiers of the book's documents: letters, digits and     *)
(* ".", never one of the separators "/", ":", ",", "[" or "]".             *)
(***************************************************************************)
PREFIX == <<"e", "p", "u", "b", "c", "f", "i", "(">>

SUFFIX == <<")">>

RECURSIVE ToDigits(_)
ToDigits(n) ==
    IF n < 10 THEN <<DigitSeq[n + 1]>>
    ELSE ToDigits(n \div 10) \o <<DigitSeq[(n % 10) + 1]>>

RenderStep(st) ==
    <<"/">> \o ToDigits(st.n)
            \o (IF st.label = None THEN <<>> ELSE <<"[">> \o st.label \o <<"]">>)

RECURSIVE RenderSteps(_, _, _)
RenderSteps(steps, i, bang) ==
    IF i > Len(steps) THEN <<>>
    ELSE RenderStep(steps[i]) \o (IF i = bang THEN <<"!">> ELSE <<>>)
                              \o RenderSteps(steps, i + 1, bang)

RenderSeg(g) ==
    RenderSteps(g.steps, 1, g.bang)
        \o (IF g.off >= 0 THEN <<":">> \o ToDigits(g.off) ELSE <<>>)

RenderLoc(l, c) ==
    CASE l.form = "range" ->
            PREFIX \o RenderSeg(l.a) \o <<",">> \o RenderSeg(l.b)
                   \o <<",">> \o RenderSeg(c) \o SUFFIX
      [] l.form = "pair" ->
            PREFIX \o RenderSeg(l.a) \o <<",">> \o RenderSeg(l.b) \o SUFFIX
      [] l.form = "single" -> PREFIX \o RenderSeg(l.a) \o SUFFIX
      [] l.form = "none" -> None
      [] l.form = "noprefix" ->
            RenderSeg(l.a) \o <<",">> \o RenderSeg(l.b)
                   \o <<",">> \o RenderSeg(c) \o SUFFIX
      [] l.form = "nosuffix" ->
            PREFIX \o RenderSeg(l.a) \o <<",">> \o RenderSeg(l.b)
                   \o <<",">> \o RenderSeg(c)
      [] l.form = "nosteps" ->
            PREFIX \o RenderSeg(l.a) \o <<",">> \o RenderSeg(l.b) \o SUFFIX

Seg(steps, bang, off) == [steps |-> steps, bang |-> bang, off |-> off]

St(n, label) == [n |-> n, label |-> label]

Loc(form, a, b, c, c2) == [form |-> form, a |-> a, b |-> b, c |-> c, c2 |-> c2]

EmptySeg == Seg(<<>>, 0, -1)

StepNums == {6, 16}

Labels == {None, <<"c", "1">>}

Offs == {-1, 0, 22}

Steps == [n : StepNums, label : Labels]

NonEmptySeqs(S, n) == SeqsUpTo(S, n) \ {<<>>}

\* PATH [ "!" PATH ] of at most n steps: a "!" has steps on both sides.
PathSegs(n) ==
    UNION {{Seg(p, k, -1) : k \in 0..(Len(p) - 1)} : p \in NonEmptySeqs(Steps, n)}

WithOffs(G) == {Seg(g.steps, g.bang, o) : g \in G, o \in Offs}

\* An endpoint of a range of at most n steps: steps, an offset, or both.
Ends(n) ==
    {Seg(p, 0, o) : p \in SeqsUpTo(Steps, n), o \in Offs} \ {EmptySeg}

AltEnds == {Seg(<<>>, 0, 7), Seg(<<St(16, None)>>, 0, -1)}

Chapter1 == <<"c", "h", "a", "p", "t", "e", "r", "1">>

Chapter2 == <<"c", "h", "a", "p", "t", "e", "r", "2">>

\* The two locations quoted by the documentation.
ExampleLocs ==
    {Loc("range",
         Seg(<<St(6, None), St(16, Chapter1), St(4, None)>>, 2, -1),
         Seg(<<St(174, None), St(2, None), St(1, None)>>, 0, 0),
         Seg(<<St(180, None), St(1, None)>>, 0, 222),
         Seg(<<St(180, None), St(3, None)>>, 0, 5)),
     Loc("range",
         Seg(<<St(6, None), St(18, Chapter2), St(4, None), St(138, None),
               St(1, None)>>, 2, -1),
         Seg(<<>>, 0, 0), Seg(<<>>, 0, 431), Seg(<<>>, 0, 970))}

RangeLocs(A, B) ==
    {Loc("range", a, b, c, c2) : a \in A, b \in B, c \in AltEnds, c2 \in AltEnds}

\* PREFIX PATH [ "!" PATH ] [ ":" DIGITS ] [ "," PATH [ ":" DIGITS ] ] SUFFIX
GrammarLocs(A) ==
    {Loc("single", a, EmptySeg, EmptySeg, EmptySeg) : a \in WithOffs(A)}
      \cup {Loc("pair", a, Seg(b.steps, 0, o), EmptySeg, EmptySeg) :
                a \in WithOffs(A), b \in {g \in AltEnds : g.steps # <<>>},
                o \in Offs}

MalformedLocs(A) ==
    {Loc("none", EmptySeg, EmptySeg, EmptySeg, EmptySeg)}
      \cup {Loc(f, a, b, c, c) : f \in {"noprefix", "nosuffix"},
                a \in A, b \in AltEnds, c \in AltEnds}
      \cup {Loc("nosteps", EmptySeg, b, EmptySeg, EmptySeg) :
                b \in {EmptySeg, Seg(<<>>, 0, 0)}}

Locs(A, B) ==
    RangeLocs(A, B) \cup ExampleLocs \cup GrammarLocs(A) \cup MalformedLocs(A)

RECURSIVE StepInts(_)
StepInts(steps) ==
    IF steps = <<>> THEN <<>> ELSE <<Head(steps).n>> \o StepInts(Tail(steps))

(***************************************************************************)
(* SpecParse: a location is drawn, together with a second location that    *)
(* differs from it at most in the last segment, and both are parsed.       *)
(***************************************************************************)
InitParse ==
    /\ pc = "input"
    /\ loc \in Locs(PathSegs(MaxPath), Ends(MaxEnd))
    /\ raw = RenderLoc(loc, loc.c)
    /\ raw2 = RenderLoc(loc, loc.c2)
    /\ result = NoResult
    /\ IdleCompare /\ IdleMain

Parse ==
    /\ pc = "input"
    /\ pc' = "parsed"
    /\ result' = [kind |-> "ok", r1 |-> parse_epubcfi(raw), r2 |-> parse_epubcfi(raw2)]
    /\ UNCHANGED <<x, y, z, e, loc, raw, raw2, records, anno_group,
                   selected_book, title_option, refresh, arg, md>>

NextParse == Parse

SpecParse == InitParse /\ [][NextParse]_vars

\* C3: every location valid under the accepted grammar, the ones with no
\* comma included, parses to a non-empty vector.
C3_ValidParses ==
    (pc = "parsed" /\ loc.form \in {"single", "pair"}) =>
        (result.r1.kind = "ok" /\ result.r1.val # <<>>)

\* The error kind that the export branch of main reports and survives.
MalformedKinds == {"ValueError"}

\* C4: every malformed location (None, prefix or suffix missing, no path
\* step) ends in the malformed-location error, never in a returned vector
\* and never in another error.
C4_MalformedRejected ==
    (pc = "parsed" /\ loc.form \in {"none", "noprefix", "nosuffix", "nosteps"}) =>
        result.r1.kind \in MalformedKinds

\* C5: a range location A,B,C parses to the path steps of A, then those of
\* B, then B's offset when present; labels and "!" add nothing and C has no
\* influence.
C5_RangeVector ==
    (pc = "parsed" /\ loc.form = "range") =>
        /\ result.r1 = [kind |-> "ok",
                        val |-> StepInts(loc.a.steps) \o StepInts(loc.b.steps)
                                  \o (IF loc.b.off >= 0 THEN <<loc.b.off>> ELSE <<>>)]
        /\ result.r2 = result.r1
        /\ (raw = PREFIX \o <<"/", "6", "/", "1", "6", "[">> \o Chapter1
                      \o <<"]", "!", "/", "4", ",", "/", "1", "7", "4", "/", "2",
                           "/", "1", ":", "0", ",", "/", "1", "8", "0", "/", "1",
                           ":", "2", "2", "2">> \o SUFFIX)
             => result.r1.val = <<6, 16, 4, 174, 2, 1, 0>>

C5_Witness ==
    /\ pc = "parsed"
    /\ loc.form = "range"
    /\ raw # raw2
    /\ result.r1 = [kind |-> "ok", val |-> <<6, 16, 4, 174, 2, 1, 0>>]
    /\ result.r2 = result.r1

(***************************************************************************)
(* extract_chapter_title                                                   *)
(***************************************************************************)
LowerSeq == <<"a", "b", "c", "d", "e", "f", "g", "h", "i", "j", "k", "l", "m",
              "n", "o", "p", "q", "r", "s", "t", "u", "v", "w", "x", "y", "z">>

UpperSeq == <<"A", "B", "C", "D", "E", "F", "G", "H", "I", "J", "K", "L", "M",
              "N", "O", "P", "Q", "R", "S", "T", "U", "V", "W", "X", "Y", "Z">>

IsLower(c) == \E i \in 1..26 : LowerSeq[i] = c

IsUpper(c) == \E i \in 1..26 : UpperSeq[i] = c

Upper(c) == IF IsLower(c) THEN UpperSeq[CHOOSE i \in 1..26 : LowerSeq[i] = c] ELSE c

Lower(c) == IF IsUpper(c) THEN LowerSeq[CHOOSE i \in 1..26 : UpperSeq[i] = c] ELSE c

\* The character classes of the patterns: \w, [0-9], \D and \d.
InClass(c, cls) ==
    CASE cls = "w" -> IsLower(c) \/ IsUpper(c) \/ IsDigit(c) \/ c = "_"
      [] cls = "9" -> IsDigit(c)
      [] cls = "D" -> ~IsDigit(c)
      [] cls = "d" -> IsDigit(c)

\* re.sub(r'(P)(Q)', r'\1 \2', s) for one-character classes P and Q: the
\* matches are found left to right and do not overlap.
RECURSIVE SubPair(_, _, _, _)
SubPair(s, i, P, Q) ==
    IF i > Len(s) THEN <<>>
    ELSE IF i < Len(s) /\ InClass(s[i], P) /\ InClass(s[i + 1], Q)
    THEN <<s[i], " ", s[i + 1]>> \o SubPair(s, i + 2, P, Q)
    ELSE <<s[i]>> \o SubPair(s, i + 1, P, Q)

\* str.capitalize()
Capitalize(s) ==
    [i \in 1..Len(s) |-> IF i = 1 THEN Upper(s[i]) ELSE Lower(s[i])]

RECURSIVE LastIndex(_, _, _)
LastIndex(s, c, i) ==
    IF i = 0 THEN 0 ELSE IF s[i] = c THEN i ELSE LastIndex(s, c, i - 1)

\* re.sub(r'\.[^.]*$', '', s): the match starts at the last "."
StripSuffix(s) ==
    LET k == LastIndex(s, ".", Len(s))
    IN  IF k = 0 THEN s ELSE SubSeq(s, 1, k - 1)

\* re.search(r'\[(.*?)\]', location).group(1), or None without a match.
\* group(1) runs from the first "[" to the first "]" after it.
FirstLabel(location) ==
    LET i == IndexFrom(location, "[", 1)
        j == IF i = 0 THEN 0 ELSE IndexFrom(location, "]", i + 1)
    IN  IF j = 0 THEN None ELSE SubSeq(location, i + 1, j - 1)

Humanize(label) ==
    StripSuffix(Capitalize(
        SubPair(SubPair(SubPair(label, 1, "w", "9"), 1, "D", "9"), 1, "d", "D")))

\* The statements after the search, given group(1) or None.
TitleOf(label) ==
    [kind |-> "ok", val |-> IF label = None THEN None ELSE Humanize(label)]

\* A location that is not a string makes re.search raise TypeError.
extract_chapter_title(location) ==
    IF location = None THEN [kind |-> "TypeError"]
    ELSE TitleOf(FirstLabel(location))

LabelChars == {"c", "h", "1", "2", "."}

TitleLabels(n) == SeqsUpTo(LabelChars, n) \cup {Chapter1, None}

LabelledLoc(label) ==
    Loc("range",
        Seg(<<St(6, None), St(16, label), St(4, None)>>, 2, -1),
        Seg(<<St(2, None)>>, 0, 0), Seg(<<St(2, None)>>, 0, 1), EmptySeg)

(***************************************************************************)
(* SpecTitle: a location with or without a label is drawn and its chapter  *)
(* title is extracted.                                                     *)
(***************************************************************************)
InitTitle ==
    /\ pc = "input"
    /\ \E label \in TitleLabels(MaxLabel) :
          /\ loc = LabelledLoc(label)
          /\ raw = RenderLoc(loc, loc.c)
    /\ raw2 = None
    /\ result = NoResult
    /\ IdleCompare /\ IdleMain

Title ==
    /\ pc = "input"
    /\ pc' = "titled"
    /\ result' = extract_chapter_title(raw)
    /\ UNCHANGED <<x, y, z, e, loc, raw, raw2, records, anno_group,
                   selected_book, title_option, refresh, arg, md>>

NextTitle == Title

SpecTitle == InitTitle /\ [][NextTitle]_vars

TheLabel == loc.a.steps[2].label

\* The number of leading lowercase letters of s.
RECURSIVE LetterRun(_, _)
LetterRun(s, i) ==
    IF i <= Len(s) /\ IsLower(s[i]) THEN LetterRun(s, i + 1) ELSE i - 1

IsLettersThenDigits(s) ==
    /\ s # None
    /\ LetterRun(s, 1) >= 1
    /\ LetterRun(s, 1) < Len(s)
    /\ \A i \in (LetterRun(s, 1) + 1)..Len(s) : IsDigit(s[i])

\* C8: a label of lowercase letters followed by digits becomes the letters
\* with the first one upper-cased, one space, and the digits unchanged and
\* contiguous; chapter1 becomes "Chapter 1".
C8_LettersDigitsTitle ==
    (pc = "titled" /\ IsLettersThenDigits(TheLabel)) =>
        LET m == LetterRun(TheLabel, 1)
        IN  result = [kind |-> "ok",
                      val |-> <<Upper(TheLabel[1])>> \o SubSeq(TheLabel, 2, m)
                                \o <<" ">> \o SubSeq(TheLabel, m + 1, Len(TheLabel))]

(***************************************************************************)
(* populate_annotations and create_annotation                              *)
(***************************************************************************)
NS_TIME_INTERVAL_SINCE_1970 == 978307200

IsSpace(c) == c \in {" ", "\n"}

RECURSIVE LStrip(_)
LStrip(s) == IF s # <<>> /\ IsSpace(Head(s)) THEN LStrip(Tail(s)) ELSE s

RECURSIVE RStrip(_)
RStrip(s) ==
    IF s # <<>> /\ IsSpace(s[Len(s)]) THEN RStrip(SubSeq(s, 1, Len(s) - 1)) ELSE s

\* str.strip()
Strip(s) == RStrip(LStrip(s))

\* The truth value of an optional string: None and "" are false.
Truthy(v) == v # None /\ v # <<>>

\* stripspaces = lambda x : x.strip() if x else x
stripspaces(v) == IF Truthy(v) THEN Strip(v) ELSE v

\* str(v) if v else None
StrOrNone(v) == IF Truthy(v) THEN v ELSE None

\* Annotation.__init__
Annotation(location, selected_text, note, represent_text, chapter, style, modified_date) ==
    IF selected_text = None /\ note = None THEN [kind |-> "ValueError"]
    ELSE [kind |-> "ok",
          val |-> [location |-> location,
                   selected_text |-> stripspaces(selected_text),
                   represent_text |-> stripspaces(represent_text),
                   chapter |-> chapter,
                   style |-> style,
                   note |-> stripspaces(note),
                   modified_date |-> modified_date]]

create_annotation(location, selected_text, note, represent_text, chapter, style, modified_date) ==
    IF selected_text = None /\ note = None THEN [kind |-> "ValueError"]
    ELSE Annotation(location, stripspaces(selected_text), stripspaces(note),
                    stripspaces(represent_text), chapter, style, modified_date)

\* The condition of the list comprehension that filters the records.
Keeps(r) ==
    r.asset_id # None /\ (r.selected_text # None \/ r.note # None)

RECURSIVE Filter(_)
Filter(rs) ==
    IF rs = <<>> THEN <<>>
    ELSE (IF Keeps(Head(rs)) THEN <<Head(rs)>> ELSE <<>>) \o Filter(Tail(rs))

\* The loop over the kept records: group is the dictionary built so far.
RECURSIVE Group(_, _)
Group(res, group) ==
    IF res = <<>> THEN [kind |-> "ok", val |-> group]
    ELSE LET r == Head(res)
             asset_id == r.asset_id
             g == IF asset_id \in DOMAIN group THEN group
                  ELSE group @@ (asset_id :> <<>>)
             anno == create_annotation(
                         StrOrNone(r.location),
                         StrOrNone(r.selected_text),
                         StrOrNone(r.note),
                         StrOrNone(r.represent_text),
                         StrOrNone(r.chapter),
                         StrOrNone(r.style),
                         NS_TIME_INTERVAL_SINCE_1970 + r.modified_date)
         IN  IF anno.kind # "ok" THEN [kind |-> anno.kind]
             ELSE Group(Tail(res),
                        [g EXCEPT ![asset_id] = Append(g[asset_id], anno.val)])

populate_annotations(annos) == Group(Filter(annos), <<>>)

Rec(asset_id, location, selected_text, note, modified_date) ==
    [asset_id |-> asset_id, location |-> location,
     selected_text |-> selected_text, note |-> note,
     represent_text |-> None, chapter |-> None, style |-> None,
     modified_date |-> modified_date]

Book1 == <<"b", "1">>

Book2 == <<"b", "2">>

Loc1 == RenderLoc(LabelledLoc(<<"c", "1">>), Seg(<<St(2, None)>>, 0, 1))

PopulateFields ==
    [asset_id : {None, Book1, Book2},
     location : {None, Loc1},
     selected_text : {None, <<>>, <<"t", " ">>},
     note : {None, <<>>, <<"n">>}]

\* The i-th record of a batch carries the modification time i.
Batch(fs) ==
    [i \in 1..Len(fs) |->
        Rec(fs[i].asset_id, fs[i].location, fs[i].selected_text, fs[i].note, i)]

Batches(F, n) == {Batch(fs) : fs \in SeqsUpTo(F, n)}

(***************************************************************************)
(* main, up to the menu loop: the records are fetched and grouped.  A      *)
(* ValueError raised here is not among the exceptions main catches.        *)
(***************************************************************************)
Populate ==
    /\ pc = "start"
    /\ LET g == populate_annotations(records)
       IN  /\ result' = [kind |-> g.kind, op |-> "populate"]
           /\ IF g.kind = "ok"
              THEN pc' = "menu" /\ anno_group' = g.val
              ELSE pc' = "crashed" /\ anno_group' = anno_group
    /\ UNCHANGED <<x, y, z, e, loc, raw, raw2, records,
                   selected_book, title_option, refresh, arg, md>>

InitPopulate ==
    /\ pc = "start"
    /\ records \in Batches(PopulateFields, MaxRecords)
    /\ anno_group = <<>>
    /\ selected_book = None
    /\ title_option = "yes"
    /\ refresh = FALSE
    /\ arg = <<>>
    /\ md = <<>>
    /\ result = NoResult
    /\ IdleCompare /\ IdleParse

NextPopulate == Populate

SpecPopulate == InitPopulate /\ [][NextPopulate]_vars

Absent(v) == v = None \/ v = <<>>

\* C7: populate_annotations never raises the "specify either selected_text
\* or note" error, and every annotation it groups has a selected_text or a
\* note.
C7_NoInvalidAnnotation ==
    result.kind # "none" =>
        /\ result.kind # "ValueError"
        /\ \A b \in DOMAIN anno_group : \A i \in 1..Len(anno_group[b]) :
              ~(Absent(anno_group[b][i].selected_text)
                  /\ Absent(anno_group[b][i].note))

(***************************************************************************)
(* The sort of content(): annotations.sort(key=cmp_to_key(...)).           *)
(* list.sort compares keys with < only, so only K.__lt__ runs.  For a list *)
(* of fewer than 64 items it finds the initial run (reversing it if it is  *)
(* strictly descending) and inserts the remaining items by binary          *)
(* insertion.  A comparison that raises ends the sort and leaves the list  *)
(* as permuted so far.                                                     *)
(***************************************************************************)
\* epubcfi_compare on two parse results; the first argument is parsed
\* first, so its exception is the one raised.
CompareParsed(px, py) ==
    IF px.kind # "ok" THEN [kind |-> px.kind]
    ELSE IF py.kind # "ok" THEN [kind |-> py.kind]
    ELSE [kind |-> "ok", val |-> epubcfi_compare(px.val, py.val)]

query_compare_no_asset_id(a, b) ==
    CompareParsed(parse_epubcfi(a.location), parse_epubcfi(b.location))

Negative_orzero(c) ==
    IF c.kind # "ok" THEN c ELSE [kind |-> "ok", val |-> c.val <= 0]

\* mycmp(...) < 0
Negative(c) ==
    IF c.kind # "ok" THEN c ELSE [kind |-> "ok", val |-> c.val < 0]

\* K.__lt__
K__lt__(a, b) == Negative(query_compare_no_asset_id(a, b))

Reverse(s) == [i \in 1..Len(s) |-> s[Len(s) + 1 - i]]

\* The length of the run that starts the list, given its first two items
\* are in descending (desc) or ascending order; i is the next item and c
\* the outcome of comparing it with the item before.
RECURSIVE RunEnd(_, _, _)
RECURSIVE RunNext(_, _, _, _)
RunNext(lst, i, desc, c) ==
    IF c.kind # "ok" THEN c
    ELSE IF c.val = desc THEN RunEnd(lst, i + 1, desc)
    ELSE [kind |-> "ok", val |-> i - 1]

RunEnd(lst, i, desc) ==
    IF i > Len(lst) THEN [kind |-> "ok", val |-> i - 1]
    ELSE RunNext(lst, i, desc, K__lt__(lst[i], lst[i - 1]))

\* The insertion point of pivot in lst[l..r-1]; c is the outcome of
\* comparing pivot with the middle item p.
RECURSIVE BinarySearch(_, _, _, _)
RECURSIVE BinaryStep(_, _, _, _, _, _)
BinaryStep(lst, pivot, l, r, p, c) ==
    IF c.kind # "ok" THEN c
    ELSE IF c.val THEN BinarySearch(lst, pivot, l, p)
    ELSE BinarySearch(lst, pivot, p + 1, r)

BinarySearch(lst, pivot, l, r) ==
    IF l >= r THEN [kind |-> "ok", val |-> l]
    ELSE BinaryStep(lst, pivot, l, r, l + ((r - l) \div 2),
                    K__lt__(pivot, lst[l + ((r - l) \div 2)]))

\* Insert item start at the insertion point found, then go on.
RECURSIVE BinarySort(_, _)
RECURSIVE InsertAt(_, _, _)
InsertAt(lst, start, at) ==
    IF at.kind # "ok" THEN [kind |-> at.kind, lst |-> lst]
    ELSE BinarySort(SubSeq(lst, 1, at.val - 1) \o <<lst[start]>>
                       \o SubSeq(lst, at.val, start - 1)
                       \o SubSeq(lst, start + 1, Len(lst)),
                    start + 1)

BinarySort(lst, start) ==
    IF start > Len(lst) THEN [kind |-> "ok", lst |-> lst]
    ELSE InsertAt(lst, start, BinarySearch(lst, lst[start], 1, start))

\* Reverse the initial run if it is descending, then insert the rest.
SortRest(lst, desc, run) ==
    IF run.kind # "ok" THEN [kind |-> run.kind, lst |-> lst]
    ELSE BinarySort(IF desc
                    THEN Reverse(SubSeq(lst, 1, run.val))
                            \o SubSeq(lst, run.val + 1, Len(lst))
                    ELSE lst,
                    run.val + 1)

SortRun(lst, first) ==
    IF first.kind # "ok" THEN [kind |-> first.kind, lst |-> lst]
    ELSE SortRest(lst, first.val, RunEnd(lst, 3, first.val))

Sort(lst) ==
    IF Len(lst) < 2 THEN [kind |-> "ok", lst |-> lst]
    ELSE SortRun(lst, K__lt__(lst[2], lst[1]))

(***************************************************************************)
(* The walk of content().  md is kept as the sequence of the strings the   *)
(* code appends to it; kind names the statement that appended the string.  *)
(***************************************************************************)
\* The end of the run of whitespace that starts at i (i - 1 if none).
RECURSIVE SpaceRunEnd(_, _)
SpaceRunEnd(s, i) ==
    IF i <= Len(s) /\ IsSpace(s[i]) THEN SpaceRunEnd(s, i + 1) ELSE i - 1

\* re.sub(r'\s{2,}', ' ', s)
RECURSIVE CollapseSpaces(_, _)
CollapseSpaces(s, i) ==
    IF i > Len(s) THEN <<>>
    ELSE LET k == SpaceRunEnd(s, i)
         IN  IF k > i THEN <<" ">> \o CollapseSpaces(s, k + 1)
             ELSE <<s[i]>> \o CollapseSpaces(s, i + 1)

\* s.replace('\n', '\n> ')
RECURSIVE QuoteLines(_)
QuoteLines(s) ==
    IF s = <<>> THEN <<>>
    ELSE (IF Head(s) = "\n" THEN <<"\n", ">", " ">> ELSE <<Head(s)>>)
            \o QuoteLines(Tail(s))

\* str(v) inside an f-string
Str(v) == IF v = None THEN <<"N", "o", "n", "e">> ELSE v

MarkerChunk(title) ==
    [kind |-> "marker", text |-> <<"#", " ">> \o Str(title) \o <<"\n">>]

QuoteChunk(text) ==
    [kind |-> "quote",
     text |-> <<">", " ">> \o QuoteLines(CollapseSpaces(text, 1)) \o <<"\n", "\n">>]

NoteChunk(note) == [kind |-> "note", text |-> Str(note) \o <<"\n", "\n">>]

\* The marker, if any, that precedes an annotation whose title is t.
Marker(t, current_chapter) ==
    IF t # current_chapter /\ t # <<>> THEN <<MarkerChunk(t)>> ELSE <<>>

\* The strings one annotation appends, given the title t of its location
\* (not computed unless the annotation is a highlight and titles are on).
Emitted(anno, titled, t, current_chapter) ==
    (IF anno.selected_text # None
     THEN (IF titled THEN Marker(t.val, current_chapter) ELSE <<>>)
             \o <<QuoteChunk(anno.selected_text)>>
     ELSE <<>>)
      \o (IF anno.note # None THEN <<NoteChunk(anno.note)>> ELSE <<>>)

RECURSIVE Walk(_, _, _, _, _)
RECURSIVE WalkOne(_, _, _, _, _, _, _)
WalkOne(annotations, i, export_titles, current_chapter, out, titled, t) ==
    IF titled /\ t.kind # "ok" THEN [kind |-> t.kind, md |-> out]
    ELSE Walk(annotations, i + 1, export_titles,
              IF titled THEN t.val ELSE current_chapter,
              out \o Emitted(annotations[i], titled, t, current_chapter))

Walk(annotations, i, export_titles, current_chapter, out) ==
    IF i > Len(annotations) THEN [kind |-> "ok", md |-> out]
    ELSE WalkOne(annotations, i, export_titles, current_chapter, out,
                 annotations[i].selected_text # None /\ export_titles = "yes",
                 extract_chapter_title(annotations[i].location))

ContentWalk(lst, w) == [kind |-> w.kind, lst |-> lst, md |-> w.md]

ContentSorted(sorted, export_titles) ==
    IF sorted.kind # "ok"
    THEN [kind |-> sorted.kind, lst |-> sorted.lst, md |-> <<>>]
    ELSE ContentWalk(sorted.lst, Walk(sorted.lst, 1, export_titles, <<>>, <<>>))

\* content(): lst is the list after the in-place sort, md the returned text.
content(annotations, export_titles) ==
    ContentSorted(Sort(annotations), export_titles)

(***************************************************************************)
(* main: the menu loop.                                                    *)
(***************************************************************************)
TITLE_OPTIONS == {"yes", "no"}

\* The exceptions the export branch catches, among those content can raise.
Caught == {"ValueError"}

SelectBook ==
    /\ pc = "menu"
    /\ \E book \in DOMAIN anno_group : selected_book' = book
    /\ result' = [kind |-> "ok", op |-> "select_book"]
    /\ UNCHANGED <<pc, x, y, z, e, loc, raw, raw2, records, anno_group,
                   title_option, refresh, arg, md>>

SelectTitle ==
    /\ pc = "menu"
    /\ \E option \in TITLE_OPTIONS : title_option' = option
    /\ result' = [kind |-> "ok", op |-> "select_title"]
    /\ UNCHANGED <<pc, x, y, z, e, loc, raw, raw2, records, anno_group,
                   selected_book, refresh, arg, md>>

\* The export branch once content has returned or raised c.
Exporting(c) ==
    /\ arg' = anno_group[selected_book]
    /\ anno_group' = [anno_group EXCEPT ![selected_book] = c.lst]
    /\ result' = [kind |-> c.kind, op |-> "export"]
    /\ md' = IF c.kind = "ok" THEN c.md ELSE md
    /\ pc' = IF c.kind = "ok"
             THEN (IF refresh THEN "menu" ELSE "done")
             ELSE IF c.kind \in Caught THEN "menu"
             ELSE "crashed"

Export ==
    /\ pc = "menu"
    /\ IF selected_book = None
       THEN /\ result' = [kind |-> "ok", op |-> "no_book"]
            /\ UNCHANGED <<pc, anno_group, arg, md>>
       ELSE Exporting(content(anno_group[selected_book], title_option))
    /\ UNCHANGED <<x, y, z, e, loc, raw, raw2, records, selected_book,
                   title_option, refresh>>

Quit ==
    /\ pc = "menu"
    /\ pc' = "done"
    /\ result' = [kind |-> "ok", op |-> "quit"]
    /\ UNCHANGED <<x, y, z, e, loc, raw, raw2, records, anno_group,
                   selected_book, title_option, refresh, arg, md>>

Highlight == <<"t", " ", " ", "t", "\n", "t">>

LocNoLabel == RenderLoc(LabelledLoc(None), Seg(<<St(2, None)>>, 0, 1))

Loc2 ==
    RenderLoc(Loc("range",
                  Seg(<<St(6, None), St(8, <<"c", "2">>), St(4, None)>>, 2, -1),
                  Seg(<<St(2, None)>>, 0, 0), EmptySeg, EmptySeg),
              Seg(<<St(2, None)>>, 0, 1))

LocNoComma ==
    RenderLoc(Loc("single",
                  Seg(<<St(6, None), St(16, <<"c", "1">>), St(4, None)>>, 2, 0),
                  EmptySeg, EmptySeg, EmptySeg), EmptySeg)

LocNoSteps == RenderLoc(Loc("nosteps", EmptySeg, EmptySeg, EmptySeg, EmptySeg), EmptySeg)

\* One comma, and an offset before it: int() is given "0/16".
LocOffsetFirst ==
    RenderLoc(Loc("pair", Seg(<<St(6, None)>>, 0, 0), Seg(<<St(16, None)>>, 0, -1),
                  EmptySeg, EmptySeg), EmptySeg)

MainLocations ==
    {Loc1, LocNoLabel, Loc2, None, LocNoComma, LocNoSteps, LocOffsetFirst}

\* A highlight at each location, and a note without highlight at Loc1.
MainFields ==
    {[asset_id |-> Book1, location |-> l, selected_text |-> Highlight,
      note |-> None] : l \in MainLocations}
      \cup {[asset_id |-> Book1, location |-> Loc1, selected_text |-> None,
              note |-> <<"n">>]}

InitMain ==
    /\ pc = "start"
    /\ records \in Batches(MainFields, MaxAnnos)
    /\ refresh \in BOOLEAN
    /\ anno_group = <<>>
    /\ selected_book = None
    /\ title_option = "yes"
    /\ arg = <<>>
    /\ md = <<>>
    /\ result = NoResult
    /\ IdleCompare /\ IdleParse

NextMain == Populate \/ SelectBook \/ SelectTitle \/ Export \/ Quit

SpecMain == InitMain /\ [][NextMain]_vars

Exported == result.kind # "none" /\ result.op = "export"

TheList == anno_group[selected_book]

Parses(anno) == parse_epubcfi(anno.location).kind = "ok"

Vec(anno) == parse_epubcfi(anno.location).val

Pos(lst, a) == CHOOSE i \in 1..Len(lst) : lst[i] = a

Ordered(lst) ==
    \A i \in 1..Len(lst) : \A j \in (i + 1)..Len(lst) :
        epubcfi_compare(Vec(lst[i]), Vec(lst[j])) <= 0

StableSorted(out, in) ==
    /\ Len(out) = Len(in)
    /\ {out[i] : i \in 1..Len(out)} = {in[i] : i \in 1..Len(in)}
    /\ Ordered(out)
    /\ \A i \in 1..Len(out) : \A j \in (i + 1)..Len(out) :
          epubcfi_compare(Vec(out[i]), Vec(out[j])) = 0
              => Pos(in, out[i]) < Pos(in, out[j])

\* C6: when every location parses, the sort of content() leaves the list as
\* the stable sorted permutation of its input: same annotations, ordered by
\* epubcfi_compare, equal vectors in their original order; a list that was
\* already sorted is left unchanged.
C6_StableSort ==
    (Exported /\ \A i \in 1..Len(arg) : Parses(arg[i])) =>
        /\ StableSorted(TheList, arg)
        /\ Ordered(arg) => TheList = arg

C6_Witness ==
    /\ Exported
    /\ Len(arg) = 3
    /\ \A i \in 1..Len(arg) : Parses(arg[i])
    /\ TheList # arg
    /\ \E i \in 1..3 : \E j \in 1..3 :
          i # j /\ epubcfi_compare(Vec(arg[i]), Vec(arg[j])) = 0

\* The titles of the markers the walk is meant to emit: a marker before a
\* highlighted annotation whose label exists, is non-empty and differs from
\* the current label, which changes only there.
RECURSIVE MeantMarkers(_, _, _)
MeantMarkers(lst, i, current) ==
    IF i > Len(lst) THEN <<>>
    ELSE LET t == IF lst[i].selected_text = None THEN None
                  ELSE extract_chapter_title(lst[i].location).val
         IN  IF t # None /\ t # <<>> /\ t # current
             THEN <<MarkerChunk(t)>> \o MeantMarkers(lst, i + 1, t)
             ELSE MeantMarkers(lst, i + 1, current)

RECURSIVE Chunks(_, _)
Chunks(out, kinds) ==
    IF out = <<>> THEN <<>>
    ELSE (IF Head(out).kind \in kinds THEN <<Head(out)>> ELSE <<>>)
            \o Chunks(Tail(out), kinds)

\* C9: with chapter titles enabled, a marker is emitted before an annotation
\* exactly when its label exists, is non-empty and differs from the current
\* label, and the current label changes only there: an annotation without a
\* label emits no marker and leaves the current label alone.
C9_MarkersOnLabelChange ==
    (Exported /\ result.kind = "ok" /\ title_option = "yes") =>
        Chunks(md, {"marker"}) = MeantMarkers(TheList, 1, <<>>)

\* The locations C10 names: None, no range comma, no path step.
Unparseable(location) ==
    \/ location = None
    \/ IndexFrom(Slice8(location), ",", 1) = 0
    \/ FindSteps(location, 1) = <<>>

RECURSIVE TextCount(_)
TextCount(lst) ==
    IF lst = <<>> THEN 0
    ELSE (IF Unparseable(Head(lst).location) THEN 0
          ELSE (IF Head(lst).selected_text # None THEN 1 ELSE 0)
                 + (IF Head(lst).note # None THEN 1 ELSE 0))
            + TextCount(Tail(lst))

\* C10: exporting a book that has an annotation with an unparseable location
\* among valid ones completes without an escaping error, and the output
\* holds the valid annotations only.
C10_ExportSkipsUnparseable ==
    (/\ Exported
     /\ \E i \in 1..Len(arg) : Unparseable(arg[i].location)
     /\ \E i \in 1..Len(arg) : ~Unparseable(arg[i].location)) =>
        /\ pc # "crashed"
        /\ result.kind = "ok"
        /\ Len(Chunks(md, {"quote", "note"})) = TextCount(arg)

====
